---- MODULE Spec2Model ----
(***************************************************************************)
(* Shader / ShaderProgram / ShaderProgramBuilder of learngl                *)
(* (src/src/shader.rs, src/src/utils.rs, src/src/errors.rs).               *)
(*                                                                         *)
(* The graphics driver and the file system are external: the driver's      *)
(* verdict on a compile or a link, and the outcome of a file read, are     *)
(* inputs chosen nondeterministically by each operation.  The driver's     *)
(* object table is the variable gl; every external call an operation       *)
(* issues is logged, in order, in calls.                                   *)
(***************************************************************************)
EXTENDS Integers, Sequences, FiniteSets, TLC

VARIABLES
    gl,        \* driver state: live shader units / programs, statuses, deletions
    shaders,   \* Shader values the caller holds: [shader_id, shader_type]
    programs,  \* ShaderProgram values the caller holds: [shader_program_id]
    builder,   \* the ShaderProgramBuilder being configured: <<>> or <<b>>
    op,        \* the operation that ran last and its arguments
    calls,     \* external calls issued by the operation that ran last, in order
    ret        \* what the operation that ran last returned

vars == <<gl, shaders, programs, builder, op, calls, ret>>

----------------------------------------------------------------------------
(* Bounds *)

MaxHandles == 3      \* handles the driver hands out in one run
MaxAttached == 2     \* paths and shader references attached to one builder

----------------------------------------------------------------------------
(* Program constants *)

GL_TRUE == 1
GL_FALSE == 0
SuccessInit == 42
LengthInit == 42
InfoLogBufSize == 512

----------------------------------------------------------------------------
(* Option<T> is a sequence of length 0 or 1 *)

None == <<>>
Some(x) == <<x>>
Min(a, b) == IF a < b THEN a ELSE b

----------------------------------------------------------------------------
(* Inputs *)

\* Paths are sequences of characters (single file names).
PathNames ==
    { <<"a", ".", "v", "s">>,      \* a.vs
      <<"a", ".", "f", "s">>,      \* a.fs
      <<"a", ".", "t", "x", "t">>, \* a.txt
      <<".", "v", "s">> }          \* .vs : a file name with no extension

\* The paths given to a builder: one that type inference accepts, one it rejects.
BuilderPaths == { <<"a", ".", "v", "s">>, <<"a", ".", "t", "x", "t">> }

\* Source byte sequences; 0 is the null byte.
Sources == { <<71>>, <<71, 0, 71>> }

ShaderTypes == {"VertexShader", "FragmentShader"}

\* Lengths, in bytes, of the diagnostic log the driver holds for a failed object.
LogLens == {3, 511, 512}

\* What the driver does with one create / compile-or-link / status query:
\* created = FALSE is the driver returning handle 0 from Create*.
Verdicts ==
    { [created |-> FALSE, status |-> FALSE, loglen |-> 0],
      [created |-> TRUE, status |-> TRUE, loglen |-> 0] }
    \cup { [created |-> TRUE, status |-> FALSE, loglen |-> n] : n \in LogLens }

NoVerdict == [created |-> FALSE, status |-> FALSE, loglen |-> 0]

\* What reading one path and compiling its contents meets.
PathOutcomes ==
    { [readable |-> FALSE, bytes |-> <<>>, v |-> NoVerdict] }
    \cup { [readable |-> TRUE, bytes |-> s, v |-> NoVerdict] :
             s \in {t \in Sources : \E i \in DOMAIN t : t[i] = 0} }
    \cup { [readable |-> TRUE, bytes |-> s, v |-> w] :
             s \in {t \in Sources : \A i \in DOMAIN t : t[i] # 0}, w \in Verdicts }

----------------------------------------------------------------------------
(* Return values: Result<_, GLWError> flattened to one record shape *)

\* info is Option<String>; a String read from the info-log buffer is modelled
\* by what it is made of: `log` leading bytes of the driver's log followed by
\* `pad` untouched zero bytes of the buffer.
OkRet(val, ty) ==
    [ok |-> TRUE, kind |-> "", io |-> "", path |-> None, info |-> None,
     val |-> val, ty |-> ty]

ErrRet(kind, io, path, info) ==
    [ok |-> FALSE, kind |-> kind, io |-> io, path |-> path, info |-> info,
     val |-> 0, ty |-> ""]

NoRet == OkRet(0, "")

----------------------------------------------------------------------------
(* std: CString::new and Path::extension, as shader.rs uses them *)

\* CString::new(bytes): NulError (None) when bytes holds a null byte, else the
\* bytes followed by the terminating null.
CString_new(bytes) ==
    IF \E i \in DOMAIN bytes : bytes[i] = 0 THEN None ELSE Some(Append(bytes, 0))

LastDot(path) ==
    LET dots == {i \in DOMAIN path : path[i] = "."}
    IN  IF dots = {} THEN 0 ELSE CHOOSE i \in dots : \A j \in dots : j <= i

\* Path::extension(): the part of the file name after its last dot; None when
\* there is no dot, or when the only dot is the file name's first character.
Extension(path) ==
    LET i == LastDot(path)
    IN  IF path = <<".", ".">> \/ i <= 1 THEN None
        ELSE Some(SubSeq(path, i + 1, Len(path)))

----------------------------------------------------------------------------
(* ShaderType *)

from_ext(ext) ==
    IF ext = <<"f", "s">> THEN [ok |-> TRUE, ty |-> "FragmentShader", io |-> ""]
    ELSE IF ext = <<"v", "s">> THEN [ok |-> TRUE, ty |-> "VertexShader", io |-> ""]
    ELSE [ok |-> FALSE, ty |-> "", io |-> "Unsupported"]

ShaderType_from_path(path) ==
    LET ext == Extension(path)
    IN  IF ext = None THEN [ok |-> FALSE, ty |-> "", io |-> "InvalidInput"]
        ELSE from_ext(ext[1])

----------------------------------------------------------------------------
(* The driver (external): object table and entry points *)

GLInit ==
    [shaders |-> {}, compiled |-> {}, programs |-> {}, linked |-> {},
     attached |-> {}, next |-> 1, deleted |-> {}, redeleted |-> {}]

\* glCreateShader / glCreateProgram: a fresh non-zero handle, or 0 on failure.
NewHandle(g, v) == IF v.created THEN g.next ELSE 0

CreateShader(g, v) ==
    IF v.created
    THEN [g EXCEPT !.shaders = @ \cup {g.next}, !.next = @ + 1]
    ELSE g

CreateProgram(g, v) ==
    IF v.created
    THEN [g EXCEPT !.programs = @ \cup {g.next}, !.next = @ + 1]
    ELSE g

\* glCompileShader: sets the unit's compile status; an error on a bad handle.
CompileShader(g, id, v) ==
    IF id \in g.shaders /\ v.status THEN [g EXCEPT !.compiled = @ \cup {id}] ELSE g

\* glAttachShader: an error unless both handles name objects.
AttachShader_gl(g, pid, id) ==
    IF pid \in g.programs /\ id \in g.shaders
    THEN [g EXCEPT !.attached = @ \cup {<<pid, id>>}]
    ELSE g

\* glLinkProgram: sets the program's link status; an error on a bad handle.
LinkProgram(g, pid, v) ==
    IF pid \in g.programs /\ v.status THEN [g EXCEPT !.linked = @ \cup {pid}] ELSE g

\* glGetShaderiv / glGetProgramiv: write the status, or leave *params untouched
\* when the handle names no object.
GetShaderiv(g, id, success) ==
    IF id \in g.shaders
    THEN (IF id \in g.compiled THEN GL_TRUE ELSE GL_FALSE)
    ELSE success

GetProgramiv(g, pid, success) ==
    IF pid \in g.programs
    THEN (IF pid \in g.linked THEN GL_TRUE ELSE GL_FALSE)
    ELSE success

\* glGet*InfoLog(handle, bufSize, &length, buf): writes at most bufSize - 1 log
\* bytes and a terminating null, and sets length to the bytes written; leaves
\* length untouched when the handle names no object.
GetInfoLogLength(valid, bufSize, length, v) ==
    IF valid THEN Min(v.loglen, bufSize - 1) ELSE length

\* glDeleteShader / glDeleteProgram: 0 is silently ignored.  deleted holds the
\* handles a delete call named, redeleted those named by more than one.  A
\* deleted shader stays attached to the programs it was attached to; a deleted
\* program lets go of its attachments.
DeleteShader(g, id) ==
    IF id = 0 THEN g
    ELSE [g EXCEPT !.shaders = @ \ {id}, !.compiled = @ \ {id},
                   !.deleted = @ \cup {id},
                   !.redeleted = IF id \in g.deleted THEN @ \cup {id} ELSE @]

DeleteProgram(g, pid) ==
    IF pid = 0 THEN g
    ELSE [g EXCEPT !.programs = @ \ {pid}, !.linked = @ \ {pid},
                   !.attached = {a \in @ : a[1] # pid},
                   !.deleted = @ \cup {pid},
                   !.redeleted = IF pid \in g.deleted THEN @ \cup {pid} ELSE @]

----------------------------------------------------------------------------
(* utils.rs: status checks *)

\* The whole buffer instead of the slice the driver reported.
info_slice_whole_buffer(valid, length) ==
    IF valid THEN [log |-> length, pad |-> InfoLogBufSize - length]
    ELSE [log |-> 0, pad |-> InfoLogBufSize]

\* The String built from info_log[..length]: the log bytes the driver wrote
\* come first, the rest of the slice is the buffer's initial zero bytes.
info_slice(valid, length) ==
    IF valid THEN [log |-> length, pad |-> 0] ELSE [log |-> 0, pad |-> length]

check_shader_succes(g, shader_id, v) ==
    LET valid == shader_id \in g.shaders
        success == GetShaderiv(g, shader_id, SuccessInit)
        length == GetInfoLogLength(valid, InfoLogBufSize, LengthInit, v)
    IN  IF success # GL_TRUE
        THEN [ok |-> FALSE, info |-> Some(info_slice(valid, length)),
              calls |-> << <<"GetShaderiv", shader_id, success>>,
                           <<"GetShaderInfoLog", shader_id, v.loglen, length>> >>]
        ELSE [ok |-> TRUE, info |-> None,
              calls |-> << <<"GetShaderiv", shader_id, success>> >>]

\* success starts out as GL_TRUE, so a query that writes nothing passes.
check_program_success_init_true(g, pid, v) ==
    LET valid == pid \in g.programs
        success == GetProgramiv(g, pid, GL_TRUE)
        length == GetInfoLogLength(valid, InfoLogBufSize, LengthInit, v)
    IN  IF success # GL_TRUE
        THEN [ok |-> FALSE, info |-> Some(info_slice(valid, length)),
              calls |-> << <<"GetProgramiv", pid, success>>,
                           <<"GetProgramInfoLog", pid, v.loglen, length>> >>]
        ELSE [ok |-> TRUE, info |-> None,
              calls |-> << <<"GetProgramiv", pid, success>> >>]

check_program_success(g, pid, v) ==
    LET valid == pid \in g.programs
        success == GetProgramiv(g, pid, SuccessInit)
        length == GetInfoLogLength(valid, InfoLogBufSize, LengthInit, v)
    IN  IF success # GL_TRUE
        THEN [ok |-> FALSE, info |-> Some(info_slice(valid, length)),
              calls |-> << <<"GetProgramiv", pid, success>>,
                           <<"GetProgramInfoLog", pid, v.loglen, length>> >>]
        ELSE [ok |-> TRUE, info |-> None,
              calls |-> << <<"GetProgramiv", pid, success>> >>]

----------------------------------------------------------------------------
(* Shader *)

Eff(g, cs, r) == [g |-> g, calls |-> cs, ret |-> r]

\* F applied to the value of x, x evaluated once.
With(x, F(_)) == CHOOSE r \in {F(y) : y \in {x}} : TRUE

\* Shader::check_succes: the status check, its failure mapped to
\* ShaderCompilationFailed(path) with the log as info.
check_succes(g, shader_id, path, v) ==
    With(check_shader_succes(g, shader_id, v), LAMBDA chk :
        [ok |-> chk.ok, calls |-> chk.calls,
         err |-> ErrRet("ShaderCompilationFailed", "", path, chk.info)])

\* The unsafe block of from_str / from_path: create, source, compile, check.
\* A failed check returns through `?` with shader_id a bare integer: nothing
\* deletes the unit.
compile_unit(g, shader_str, shader_type, path, v) ==
    With(NewHandle(g, v), LAMBDA shader_id :
    With(CompileShader(CreateShader(g, v), shader_id, v), LAMBDA g2 :
    With(check_succes(g2, shader_id, path, v), LAMBDA chk :
    With(<< <<"CreateShader", shader_type, shader_id>>,
            <<"ShaderSource", shader_id, shader_str>>,
            <<"CompileShader", shader_id>> >> \o chk.calls, LAMBDA cs :
        IF chk.ok THEN Eff(g2, cs, OkRet(shader_id, shader_type))
        ELSE Eff(g2, cs, chk.err)))))

\* The unit is created before the source is encoded.
Shader_from_str_encode_late(g, source, shader_type, v) ==
    With(CString_new(source), LAMBDA shader_str :
    With(compile_unit(g, IF shader_str = None THEN <<0>> ELSE shader_str[1],
                      shader_type, None, v), LAMBDA e :
        IF shader_str = None
        THEN Eff(e.g, e.calls, ErrRet("CStringNulError", "", None, None))
        ELSE e))

Shader_from_str(g, source, shader_type, v) ==
    With(CString_new(source), LAMBDA shader_str :
        IF shader_str = None
        THEN Eff(g, <<>>, ErrRet("CStringNulError", "", None, None))
        ELSE compile_unit(g, shader_str[1], shader_type, None, v))

\* An unrecognised extension falls back to a vertex shader.
Shader_from_path_default_type(g, path, out) ==
    With(<< <<"fs::read", path, out.readable, out.bytes>> >>, LAMBDA rd :
    With(CString_new(out.bytes), LAMBDA shader_str :
    With(ShaderType_from_path(path), LAMBDA shader_type :
        IF ~out.readable THEN Eff(g, rd, ErrRet("IOError", "Read", None, None))
        ELSE IF shader_str = None
        THEN Eff(g, rd, ErrRet("CStringNulError", "", None, None))
        ELSE With(compile_unit(g, shader_str[1],
                      IF shader_type.ok THEN shader_type.ty ELSE "VertexShader",
                      Some(path), out.v), LAMBDA e :
                 Eff(e.g, rd \o e.calls, e.ret)))))

Shader_from_path(g, path, out) ==
    With(<< <<"fs::read", path, out.readable, out.bytes>> >>, LAMBDA rd :
    With(CString_new(out.bytes), LAMBDA shader_str :
    With(ShaderType_from_path(path), LAMBDA shader_type :
        IF ~out.readable THEN Eff(g, rd, ErrRet("IOError", "Read", None, None))
        ELSE IF shader_str = None
        THEN Eff(g, rd, ErrRet("CStringNulError", "", None, None))
        ELSE IF ~shader_type.ok
        THEN Eff(g, rd, ErrRet("IOError", shader_type.io, None, None))
        ELSE With(compile_unit(g, shader_str[1], shader_type.ty, Some(path), out.v),
                  LAMBDA e : Eff(e.g, rd \o e.calls, e.ret)))))

\* Drop for Shader
Shader_drop(g, shader) ==
    Eff(DeleteShader(g, shader.shader_id),
        << <<"DeleteShader", shader.shader_id>> >>, NoRet)

\* Dropping a Vec<Shader> drops its elements in order.
RECURSIVE drop_vec(_, _, _, _)
drop_vec(g, vec, i, cs) ==
    IF i > Len(vec) THEN Eff(g, cs, NoRet)
    ELSE With(Shader_drop(g, vec[i]), LAMBDA e :
         With(cs \o e.calls, LAMBDA cs1 : drop_vec(e.g, vec, i + 1, cs1)))

----------------------------------------------------------------------------
(* ShaderProgram *)

use_program(g, program) ==
    Eff(g, << <<"UseProgram", program.shader_program_id>> >>, NoRet)

\* Drop for ShaderProgram that also deletes the shaders attached to the program.
RECURSIVE delete_attached(_, _, _)
delete_attached(g, ids, cs) ==
    IF ids = {} THEN Eff(g, cs, NoRet)
    ELSE With(CHOOSE x \in ids : \A y \in ids : x <= y, LAMBDA id :
         With(DeleteShader(g, id), LAMBDA g1 :
         With(Append(cs, <<"DeleteShader", id>>), LAMBDA cs1 :
             delete_attached(g1, ids \ {id}, cs1))))

ShaderProgram_drop_owning(g, program) ==
    With(delete_attached(g, {a[2] : a \in {x \in g.attached :
                                  x[1] = program.shader_program_id}}, <<>>), LAMBDA d :
        Eff(DeleteProgram(d.g, program.shader_program_id),
            Append(d.calls, <<"DeleteProgram", program.shader_program_id>>), NoRet))

\* Drop for ShaderProgram
ShaderProgram_drop(g, program) ==
    Eff(DeleteProgram(g, program.shader_program_id),
        << <<"DeleteProgram", program.shader_program_id>> >>, NoRet)

----------------------------------------------------------------------------
(* ShaderProgramBuilder *)

new == [shader_paths |-> <<>>, shaders |-> <<>>]

attach_shader_path(b, path) == [b EXCEPT !.shader_paths = Append(@, path)]

attach_shader(b, shader) == [b EXCEPT !.shaders = Append(@, shader)]

Collected(g, cs, owned, err) == [g |-> g, calls |-> cs, owned |-> owned, err |-> err]

\* Every path is compiled, whatever the earlier ones did; the first error wins.
RECURSIVE collect_all(_, _, _, _, _, _)
collect_all(g, paths, outs, i, owned, cs) ==
    IF i > Len(paths) THEN Collected(g, cs, owned, None)
    ELSE With(Shader_from_path(g, paths[i], outs[i]), LAMBDA e :
         With(IF e.ret.ok
              THEN Append(owned, [shader_id |-> e.ret.val, shader_type |-> e.ret.ty])
              ELSE owned, LAMBDA owned1 :
         With(cs \o e.calls, LAMBDA cs1 :
         With(collect_all(e.g, paths, outs, i + 1, owned1, cs1), LAMBDA rest :
             IF e.ret.ok THEN rest
             ELSE Collected(rest.g, rest.calls, <<>>, Some(e.ret))))))

\* shader_paths.into_iter().map(Shader::from_path).collect::<Result<Vec,_>>():
\* stops at the first Err and drops the shaders collected so far.
RECURSIVE collect(_, _, _, _, _, _)
collect(g, paths, outs, i, owned, cs) ==
    IF i > Len(paths) THEN Collected(g, cs, owned, None)
    ELSE With(Shader_from_path(g, paths[i], outs[i]), LAMBDA e :
         With(cs \o e.calls, LAMBDA cs1 :
             IF e.ret.ok
             THEN With(Append(owned, [shader_id |-> e.ret.val, shader_type |-> e.ret.ty]),
                       LAMBDA owned1 : collect(e.g, paths, outs, i + 1, owned1, cs1))
             ELSE With(drop_vec(e.g, owned, 1, <<>>), LAMBDA d :
                       Collected(d.g, cs1 \o d.calls, <<>>, Some(e.ret)))))

\* The newly compiled shaders are attached before the borrowed ones.
attach_order_owned_first(borrowed, owned) == owned \o borrowed

\* self.shaders.into_iter().chain(owned_shaders.iter())
attach_order(borrowed, owned) == borrowed \o owned

\* .for_each(|shader| gl::AttachShader(shader_program_id, shader.shader_id))
RECURSIVE attach_each(_, _, _, _)
attach_each(g, shader_program_id, att, i) ==
    IF i > Len(att) THEN g
    ELSE With(AttachShader_gl(g, shader_program_id, att[i].shader_id), LAMBDA g1 :
             attach_each(g1, shader_program_id, att, i + 1))

\* The owned shaders are kept alive instead of dropped when build returns.
build_scope_exit_keep(g, owned_shaders) == Eff(g, <<>>, NoRet)

\* owned_shaders goes out of scope on every return after the collect.
build_scope_exit(g, owned_shaders) == drop_vec(g, owned_shaders, 1, <<>>)

build(g, b, outs, lv) ==
    With(collect(g, b.shader_paths, outs, 1, <<>>, <<>>), LAMBDA c :
        IF c.err # None THEN Eff(c.g, c.calls, c.err[1])
        ELSE
        With(NewHandle(c.g, lv), LAMBDA shader_program_id :
        With(attach_order(b.shaders, c.owned), LAMBDA att :
        With(LinkProgram(attach_each(CreateProgram(c.g, lv), shader_program_id, att, 1),
                         shader_program_id, lv), LAMBDA g2 :
        With(check_program_success(g2, shader_program_id, lv), LAMBDA chk :
        With(build_scope_exit(g2, c.owned), LAMBDA d :
        With(c.calls
             \o << <<"CreateProgram", shader_program_id>> >>
             \o [i \in 1..Len(att) |->
                   <<"AttachShader", shader_program_id, att[i].shader_id>>]
             \o << <<"LinkProgram", shader_program_id>> >>
             \o chk.calls \o d.calls, LAMBDA cs :
            IF chk.ok THEN Eff(d.g, cs, OkRet(shader_program_id, ""))
            ELSE Eff(d.g, cs,
                     ErrRet("ShaderProgramLinkingFailed", "", None, chk.info)))))))))

----------------------------------------------------------------------------
(* The caller: one action per operation *)

Op(name, path, source, b, id) ==
    [name |-> name, path |-> path, source |-> source, b |-> b, id |-> id]

\* The outcomes one build() can meet: an outcome is chosen for a path only if
\* the paths before it were compiled, and a link verdict only if all were.
Unread == [readable |-> FALSE, bytes |-> <<>>, v |-> NoVerdict]

RECURSIVE PathRuns(_, _)
PathRuns(paths, i) ==
    IF i > Len(paths) THEN {[outs |-> <<>>, lv |-> v] : v \in Verdicts}
    ELSE With({o \in PathOutcomes : Shader_from_path(GLInit, paths[i], o).ret.ok},
              LAMBDA good :
         With(IF good = {} THEN {} ELSE PathRuns(paths, i + 1), LAMBDA rest :
             {[outs |-> <<o>> \o [j \in 1..(Len(paths) - i) |-> Unread], lv |-> NoVerdict] :
                 o \in PathOutcomes \ good}
             \cup {[outs |-> <<o>> \o r.outs, lv |-> r.lv] : o \in good, r \in rest}))

BuildRuns(paths) == PathRuns(paths, 1)

Init ==
    /\ gl = GLInit
    /\ shaders = {}
    /\ programs = {}
    /\ builder = None
    /\ op = Op("init", None, None, None, 0)
    /\ calls = <<>>
    /\ ret = NoRet

Held(r) == [shader_id |-> r.val, shader_type |-> r.ty]

FromStr(source, shader_type, v) ==
    /\ gl.next <= MaxHandles
    /\ \E e \in {Shader_from_str(gl, source, shader_type, v)} :
           /\ gl' = e.g
           /\ calls' = e.calls
           /\ ret' = e.ret
           /\ shaders' = IF e.ret.ok THEN shaders \cup {Held(e.ret)} ELSE shaders
    /\ op' = Op("from_str", None, Some(source), None, 0)
    /\ UNCHANGED <<programs, builder>>

FromPath(path, out) ==
    /\ gl.next <= MaxHandles
    /\ \E e \in {Shader_from_path(gl, path, out)} :
           /\ gl' = e.g
           /\ calls' = e.calls
           /\ ret' = e.ret
           /\ shaders' = IF e.ret.ok THEN shaders \cup {Held(e.ret)} ELSE shaders
    /\ op' = Op("from_path", Some(path), None, None, 0)
    /\ UNCHANGED <<programs, builder>>

\* A Shader borrowed by the builder cannot be dropped (lifetime 'a).
Borrowed(shader) ==
    /\ builder # None
    /\ \E i \in DOMAIN builder[1].shaders : builder[1].shaders[i] = shader

DropShader(shader) ==
    /\ shader \in shaders
    /\ ~Borrowed(shader)
    /\ \E e \in {Shader_drop(gl, shader)} :
           /\ gl' = e.g
           /\ calls' = e.calls
           /\ ret' = e.ret
    /\ shaders' = shaders \ {shader}
    /\ op' = Op("drop_shader", None, None, None, shader.shader_id)
    /\ UNCHANGED <<programs, builder>>

BuilderNew ==
    /\ builder = None
    /\ builder' = Some(new)
    /\ op' = Op("builder", None, None, None, 0)
    /\ calls' = <<>>
    /\ ret' = NoRet
    /\ UNCHANGED <<gl, shaders, programs>>

\* A path is attached only while a handle is left for its shader and for the
\* program.
AttachShaderPath(path) ==
    /\ builder # None
    /\ Len(builder[1].shader_paths) + Len(builder[1].shaders) < MaxAttached
    /\ gl.next + Len(builder[1].shader_paths) + 1 <= MaxHandles
    /\ builder' = Some(attach_shader_path(builder[1], path))
    /\ op' = Op("attach_shader_path", Some(path), None, None, 0)
    /\ calls' = <<>>
    /\ ret' = NoRet
    /\ UNCHANGED <<gl, shaders, programs>>

AttachShader(shader) ==
    /\ builder # None
    /\ shader \in shaders
    /\ Len(builder[1].shader_paths) + Len(builder[1].shaders) < MaxAttached
    /\ builder' = Some(attach_shader(builder[1], shader))
    /\ op' = Op("attach_shader", None, None, None, shader.shader_id)
    /\ calls' = <<>>
    /\ ret' = NoRet
    /\ UNCHANGED <<gl, shaders, programs>>

Build(outs, lv) ==
    /\ builder # None
    /\ gl.next + Len(builder[1].shader_paths) <= MaxHandles
    /\ \E e \in {build(gl, builder[1], outs, lv)} :
           /\ gl' = e.g
           /\ calls' = e.calls
           /\ ret' = e.ret
           /\ programs' = IF e.ret.ok
                          THEN programs \cup {[shader_program_id |-> e.ret.val]}
                          ELSE programs
    /\ op' = Op("build", None, None, builder, 0)
    /\ builder' = None
    /\ UNCHANGED shaders

UseProgram(program) ==
    /\ program \in programs
    /\ \E e \in {use_program(gl, program)} :
           /\ gl' = e.g
           /\ calls' = e.calls
           /\ ret' = e.ret
    /\ op' = Op("use_program", None, None, None, program.shader_program_id)
    /\ UNCHANGED <<shaders, programs, builder>>

DropProgram(program) ==
    /\ program \in programs
    /\ \E e \in {ShaderProgram_drop(gl, program)} :
           /\ gl' = e.g
           /\ calls' = e.calls
           /\ ret' = e.ret
    /\ programs' = programs \ {program}
    /\ op' = Op("drop_program", None, None, None, program.shader_program_id)
    /\ UNCHANGED <<shaders, builder>>

\* Shaders on their own: construction from source and from a path, and drop.
NextShader ==
    \/ \E source \in Sources, shader_type \in ShaderTypes, v \in Verdicts :
          FromStr(source, shader_type, v)
    \/ \E path \in PathNames, out \in PathOutcomes : FromPath(path, out)
    \/ \E shader \in shaders : DropShader(shader)

SpecShader == Init /\ [][NextShader]_vars

\* Programs: shaders to borrow come from from_str, the rest from paths.
Next ==
    \/ \E source \in Sources, shader_type \in ShaderTypes, v \in Verdicts :
          FromStr(source, shader_type, v)
    \/ \E shader \in shaders : DropShader(shader)
    \/ BuilderNew
    \/ \E path \in BuilderPaths : AttachShaderPath(path)
    \/ \E shader \in shaders : AttachShader(shader)
    \/ \E run \in BuildRuns(IF builder = None THEN <<>> ELSE builder[1].shader_paths) :
          Build(run.outs, run.lv)
    \/ \E program \in programs : UseProgram(program)
    \/ \E program \in programs : DropProgram(program)

Spec == Init /\ [][Next]_vars

----------------------------------------------------------------------------
(* Reading the call log *)

Named(name) == SelectSeq(calls, LAMBDA c : c[1] = name)
At(name) == {i \in DOMAIN calls : calls[i][1] = name}
DriverCalls == {i \in DOMAIN calls : calls[i][1] # "fs::read"}
HasNul(bytes) == \E i \in DOMAIN bytes : bytes[i] = 0
CreatedShaders == {calls[i][3] : i \in At("CreateShader")} \ {0}
CreatedPrograms == {calls[i][2] : i \in At("CreateProgram")} \ {0}
Live == gl.shaders \cup gl.programs
Constructed == op.name \in {"from_str", "from_path"}

----------------------------------------------------------------------------
(* Claims *)

\* C1: every ShaderProgram the caller holds names a non-zero program handle
\* that is live and linked; a successful build() created it in that call, after
\* every path compiled and the link status read GL_TRUE; use_program is only
\* issued on such a handle; a program handle is deleted only by the drop of
\* the ShaderProgram that owns it.
C1_ProgramHandleValid ==
    /\ \A p \in programs :
          /\ p.shader_program_id # 0
          /\ p.shader_program_id \in gl.programs
          /\ p.shader_program_id \in gl.linked
          /\ p.shader_program_id \notin gl.deleted
    /\ (op.name = "build" /\ ret.ok) =>
          /\ Named("CreateProgram") = << <<"CreateProgram", ret.val>> >>
          /\ Named("GetProgramiv") = << <<"GetProgramiv", ret.val, GL_TRUE>> >>
          /\ Len(Named("GetShaderiv")) = Len(op.b[1].shader_paths)
          /\ \A i \in At("GetShaderiv") : calls[i][3] = GL_TRUE
    /\ \A i \in At("UseProgram") :
          calls[i][2] \in gl.programs \cap gl.linked
    /\ \A i \in At("DeleteProgram") :
          op.name = "drop_program" /\ calls[i][2] = op.id

C1_Witness ==
    /\ op.name = "use_program"
    /\ [shader_program_id |-> op.id] \in programs

\* C2: when from_str or from_path created a shader unit and its compile status
\* check failed, that unit has been deleted by the time the error is returned.
C2_FailedUnitReleased ==
    (Constructed /\ ~ret.ok /\ ret.kind = "ShaderCompilationFailed")
        => CreatedShaders \cap gl.shaders = {}

\* C3: when build() created a program handle and the link status check
\* failed, the program handle and every shader compiled from a path during
\* that build() have been deleted by the time the error is returned.
C3_LinkFailureReleasesAll ==
    (op.name = "build" /\ ~ret.ok /\ ret.kind = "ShaderProgramLinkingFailed")
        => (CreatedPrograms \cup CreatedShaders) \cap Live = {}

\* C4: when build() fails on a path, that path is the i-th one, the i paths
\* read are the first i in order and no later one is read or compiled, no
\* program is created, attached to or linked, and the error is the i-th path's
\* (after the i-th path's failure only the shaders compiled before it are
\* deleted).
C4_FirstPathFailureShortCircuits ==
    (op.name = "build" /\ ~ret.ok /\ ret.kind # "ShaderProgramLinkingFailed") =>
        LET paths == op.b[1].shader_paths
            reads == Named("fs::read")
            i == Len(reads)
        IN  /\ i \in 1..Len(paths)
            /\ \A j \in 1..i : reads[j][2] = paths[j]
            /\ Len(Named("CreateShader")) \in {i - 1, i}
            /\ \A k \in DOMAIN calls :
                  calls[k][1] \notin {"CreateProgram", "AttachShader", "LinkProgram",
                                      "GetProgramiv", "GetProgramInfoLog"}
            /\ LET last == CHOOSE k \in At("fs::read") : \A m \in At("fs::read") : m <= k
                   after == {k \in DOMAIN calls : k > last /\ calls[k][1] # "DeleteShader"}
               IN  /\ ~reads[i][3] => (ret.kind = "IOError" /\ ret.io = "Read" /\ after = {})
                   /\ (reads[i][3] /\ HasNul(reads[i][4])) =>
                          (ret.kind = "CStringNulError" /\ after = {})
                   /\ (reads[i][3] /\ ~HasNul(reads[i][4])
                         /\ Extension(paths[i]) \notin {Some(<<"v", "s">>), Some(<<"f", "s">>)}) =>
                          (ret.kind = "IOError" /\ ret.io \in {"InvalidInput", "Unsupported"}
                             /\ after = {})
                   /\ (\E k \in after : calls[k][1] = "GetShaderiv") =>
                          /\ ret.kind = "ShaderCompilationFailed"
                          /\ ret.path = Some(paths[i])
                          /\ \E k \in after : calls[k][1] = "GetShaderiv" /\ calls[k][3] # GL_TRUE
                   /\ \A k \in At("GetShaderiv") : k < last => calls[k][3] = GL_TRUE

C4_Witness ==
    /\ op.name = "build" /\ ~ret.ok /\ ret.kind = "ShaderCompilationFailed"
    /\ Len(op.b[1].shader_paths) = 2
    /\ Len(Named("fs::read")) = 1

\* C5: no handle is ever named by two delete calls; a Shader the caller holds
\* keeps a live, compiled handle whatever programs were built from it and
\* whatever became of them; dropping a program issues one DeleteProgram and
\* nothing else; dropping a Shader issues one DeleteShader on its handle; a
\* build() deletes no shader it borrowed, and succeeds whenever its link status
\* reads GL_TRUE, whatever programs its shaders are already attached to.
C5_SharedShaderReleasedOnce ==
    /\ gl.redeleted = {}
    /\ \A s \in shaders : s.shader_id \in gl.shaders \cap gl.compiled
    /\ op.name = "drop_program" =>
          /\ calls = << <<"DeleteProgram", op.id>> >>
          /\ op.id \in gl.deleted
    /\ op.name = "drop_shader" =>
          /\ calls = << <<"DeleteShader", op.id>> >>
          /\ op.id \in gl.deleted
    /\ op.name = "build" =>
          /\ \A i \in At("DeleteShader"), j \in DOMAIN op.b[1].shaders :
                calls[i][2] # op.b[1].shaders[j].shader_id
          /\ (\E i \in At("GetProgramiv") : calls[i][3] = GL_TRUE) =>
                (ret.ok /\ [shader_program_id |-> ret.val] \in programs)

\* Two programs built from one borrowed shader, the shader dropped before them.
C5_Witness ==
    /\ op.name = "drop_shader"
    /\ \E p, q \in programs :
          /\ p # q
          /\ <<p.shader_program_id, op.id>> \in gl.attached
          /\ <<q.shader_program_id, op.id>> \in gl.attached

\* C6: after a successful build(), every shader it compiled from a path has
\* been deleted, after the link and its status check; every shader it borrowed
\* is still held by the caller, live and compiled, and was not deleted.
C6_OwnedReleasedBorrowedKept ==
    (op.name = "build" /\ ret.ok) =>
        /\ Len(Named("CreateShader")) = Len(op.b[1].shader_paths)
        /\ \A i \in At("CreateShader") :
              /\ calls[i][3] \notin gl.shaders
              /\ \E d \in At("DeleteShader") :
                    /\ calls[d][2] = calls[i][3]
                    /\ \A k \in At("LinkProgram") \cup At("GetProgramiv") : k < d
        /\ \A j \in DOMAIN op.b[1].shaders :
              LET s == op.b[1].shaders[j]
              IN  /\ s \in shaders
                  /\ s.shader_id \in gl.shaders \cap gl.compiled
                  /\ \A d \in At("DeleteShader") : calls[d][2] # s.shader_id

C6_Witness ==
    /\ op.name = "build" /\ ret.ok
    /\ Len(op.b[1].shader_paths) >= 1
    /\ Len(op.b[1].shaders) >= 1

\* C7: a source holding a null byte makes from_str, and from_path on a file
\* with such contents, fail with the encoding error without any driver call.
C7_NulSourceNeverReachesDriver ==
    /\ (op.name = "from_str" /\ HasNul(op.source[1])) =>
          (~ret.ok /\ ret.kind = "CStringNulError" /\ calls = <<>>)
    /\ (op.name = "from_path" /\ calls[1][3] /\ HasNul(calls[1][4])) =>
          (~ret.ok /\ ret.kind = "CStringNulError" /\ DriverCalls = {})

C7_Witness ==
    /\ op.name = "from_path" /\ calls[1][3] /\ HasNul(calls[1][4])
    /\ ret.kind = "CStringNulError"

\* C8: for a path whose extension is missing or neither vs nor fs, type
\* inference fails and from_path fails without any driver call.
C8_BadExtensionNeverReachesDriver ==
    (op.name = "from_path"
       /\ Extension(op.path[1]) \notin {Some(<<"v", "s">>), Some(<<"f", "s">>)}) =>
        /\ ~ShaderType_from_path(op.path[1]).ok
        /\ ~ret.ok
        /\ DriverCalls = {}
        /\ (calls[1][3] /\ ~HasNul(calls[1][4])) =>
              (ret.kind = "IOError" /\ ret.io \in {"InvalidInput", "Unsupported"})

C8_Witness ==
    /\ op.name = "from_path" /\ op.path[1] = <<".", "v", "s">>
    /\ calls[1][3] /\ ~HasNul(calls[1][4])
    /\ ret.io = "InvalidInput"

\* The compile status the construction read back was not GL_TRUE.
CompileFailed ==
    /\ Constructed
    /\ \E i \in At("GetShaderiv") : calls[i][3] = GL_FALSE

PathFieldMatches ==
    ret.path = (IF op.name = "from_path" THEN op.path ELSE None)

\* C9 as stated: a failed compile gives a compilation-failure error whose
\* info is the driver's whole diagnostic log and whose path is the source
\* path for from_path and absent for from_str.
C9_InfoIsWholeLog ==
    CompileFailed =>
        /\ ~ret.ok /\ ret.kind = "ShaderCompilationFailed"
        /\ PathFieldMatches
        /\ \A i \in At("GetShaderInfoLog") :
              ret.info = Some([log |-> calls[i][3], pad |-> 0])

\* C9 amended: the info is the driver's diagnostic log cut to the bytes that
\* fit the buffer of the info-log query, one less than the buffer's size.
C9_InfoIsLogThatFits ==
    CompileFailed =>
        /\ ~ret.ok /\ ret.kind = "ShaderCompilationFailed"
        /\ PathFieldMatches
        /\ Len(Named("GetShaderInfoLog")) = 1
        /\ \A i \in At("GetShaderInfoLog") :
              ret.info = Some([log |-> Min(calls[i][3], InfoLogBufSize - 1), pad |-> 0])

C9_Witness ==
    /\ CompileFailed /\ op.name = "from_path"
    /\ \E i \in At("GetShaderInfoLog") : calls[i][3] >= InfoLogBufSize

\* C10: in a build() that gets as far as creating the program, the shaders
\* attached are the borrowed ones in the order added, then the ones compiled
\* from the paths in the order the paths were added, each once, all to the new
\* program and all before the one link call.
C10_AttachOrder ==
    (op.name = "build" /\ At("CreateProgram") # {}) =>
        LET att == Named("AttachShader")
            made == Named("CreateShader")
            reads == Named("fs::read")
            b == op.b[1]
            nb == Len(b.shaders)
        IN  /\ Len(att) = nb + Len(b.shader_paths)
            /\ Len(made) = Len(b.shader_paths)
            /\ \A i \in 1..nb : att[i][3] = b.shaders[i].shader_id
            /\ \A i \in 1..Len(b.shader_paths) :
                  /\ att[nb + i][3] = made[i][3]
                  /\ reads[i][2] = b.shader_paths[i]
            /\ \A i \in DOMAIN att : att[i][2] = Named("CreateProgram")[1][2]
            /\ Cardinality(At("LinkProgram")) = 1
            /\ \A a \in At("AttachShader"), l \in At("LinkProgram") : a < l

C10_Witness ==
    /\ op.name = "build" /\ At("LinkProgram") # {}
    /\ Len(op.b[1].shaders) >= 1
    /\ Len(op.b[1].shader_paths) >= 1

====
